---- MODULE Spec2Model ----
(***************************************************************************)
(* Model of the asynchronous job lifecycle client of the fraud-detection   *)
(* web front end: PredictionAPI (api.js), the App poller                   *)
(* (checkPredictionStatus and its callers) and the pieces of Auth they     *)
(* read.  The JavaScript event loop is modelled by two bags: `timers`      *)
(* (callbacks registered with setTimeout and not yet fired) and `calls`    *)
(* (HTTP requests that are awaited and not yet resolved).  Every action is *)
(* one macrotask: a user event, a timer firing or a response arriving,     *)
(* together with all the synchronous code and promise continuations that   *)
(* run before control returns to the event loop.                           *)
(***************************************************************************)
EXTENDS Bags, FiniteSets, Integers, Sequences, TLC

\* ---------------------------------------------------------------- bounds
\* number of transactions submitted in one page session
MaxJobs == 2
\* cap on the number of "pending" status responses handled in one session
MaxPending == 3
\* cap on the failed requests getPrediction retries in one session
MaxFetchRetries == 2
\* cap on concurrent manual "check status" requests in one session
MaxManual == 1
\* number of transactions submitted in a session that uses the history list
ManualJobs == 1

Jobs == 1..MaxJobs

\* ------------------------------------------------------ program constants
baseDelay == 2000
maxDelay == 10000
maxErrorRetries == 3
errorRetryDelay == 5000
initialPollDelay == 2000
refundRefreshDelay == 1000
maxRetries == 3
retryDelay == 1000

\* ------------------------------------------------------------- messages
\* Error messages are represented by a short tag; Words gives, for each
\* message, which of the substrings the code searches for it contains.
MsgAuth == "auth_required"        \* 'Требуется авторизация'
MsgTimeout == "timeout"           \* 'Превышено время ожидания ответа от сервера'
MsgSignalTimeout == "signal_timeout" \* the browser's TimeoutError message
MsgNetwork == "network"           \* 'Не удалось подключиться к серверу. ...'
MsgBadJson == "bad_json"          \* 'Получен некорректный JSON от сервера'
MsgISE == "internal_server_error" \* 'Internal Server Error'
MsgNotFound == "not_found"        \* 'Prediction not found'
MsgIseNotFound == "ise_not_found" \* 'Internal Server Error: prediction not found'
MsgForbidden == "forbidden"       \* any other server detail
MsgBalance == "low_balance"       \* 'Недостаточно средств на балансе'
MsgNoId == "no_id"                \* 'Не получен идентификатор анализа от сервера'
MsgNullRead == "null_read"        \* TypeError: cannot read properties of null
MsgNoData == "no_data"            \* 'Не предоставлены данные транзакции для анализа'
MsgMissingField == "missing_field" \* 'Отсутствует обязательное поле: <field>'

\* the substrings searched with String.prototype.includes
WServer == "server_ru"            \* 'сервер'
WNotFound == "not found"
WISE == "Internal Server Error"
WBalance == "balance_ru"          \* 'баланс' or 'средств'

Words(msg) ==
    CASE msg = MsgTimeout -> {WServer}
      [] msg = MsgNetwork -> {WServer}
      [] msg = MsgBadJson -> {WServer}
      [] msg = MsgISE -> {WISE}
      [] msg = MsgNotFound -> {WNotFound}
      [] msg = MsgIseNotFound -> {WISE, WNotFound}
      [] msg = MsgBalance -> {WBalance}
      [] OTHER -> {}

Includes(msg, word) == word \in Words(msg)

\* ------------------------------------------------------------ transport
\* What the network can do with one request.
Failures ==
    {"no_content", "bad_json", "abort", "signal_timeout", "net_fail",
     "http_500", "http_404", "http_500_nf", "http_403", "http_402"}
Responses == {"ok"} \cup Failures

Null == [isNull |-> TRUE, hasId |-> FALSE, status |-> "", marker |-> FALSE]

Body(hasId, status, marker) ==
    [isNull |-> FALSE, hasId |-> hasId, status |-> status, marker |-> marker]

Threw(msg) == [ok |-> FALSE, msg |-> msg, value |-> Null]
Returned(value) == [ok |-> TRUE, msg |-> "", value |-> value]

\* fetchNeedsToken without the test of lines 21-23
fetchNeedsTokenNever(auth, tok) == FALSE

\* fetchAPI, lines 18-25: the credential check made before any request
fetchNeedsToken(auth, tok) == auth /\ ~tok

\* fetchAPI, lines 49-113: the result of the call for a network outcome
\* `resp`, `body` being the decoded JSON body of a success response
fetchResult(resp, body) ==
    CASE resp = "ok" -> Returned(body)
      [] resp = "no_content" -> Returned(Null)
      [] resp = "bad_json" -> Threw(MsgBadJson)
      [] resp = "abort" -> Threw(MsgTimeout)
      [] resp = "signal_timeout" -> Threw(MsgSignalTimeout)
      [] resp = "net_fail" -> Threw(MsgNetwork)
      [] resp = "http_500" -> Threw(MsgISE)
      [] resp = "http_404" -> Threw(MsgNotFound)
      [] resp = "http_500_nf" -> Threw(MsgIseNotFound)
      [] resp = "http_403" -> Threw(MsgForbidden)
      [] resp = "http_402" -> Threw(MsgBalance)

\* ---------------------------------------------------- fetchAPI in detail
\* The messages fetchAPI builds for a response with a non-success status.
MsgDefault == "default_error"     \* 'Произошла ошибка при выполнении запроса'
MsgDetail == "detail"             \* errorData.detail
MsgRawText == "raw_text"          \* the response text, at most 100 characters
MsgRawTextCut == "raw_text_cut"   \* its first 100 characters + '...'
MsgStatusLine == "status_line"    \* 'Ошибка <status>: <statusText>'
MsgReadError == "read_error"      \* the error response.text() rejected with

\* response.headers.get('content-type'): null, application/json, other
ContentTypes == {"none", "json", "other"}

\* The bytes of a response body: a stream that fails while it is read, no
\* bytes, the JSON texts {"detail": "..."}, {...} without detail and null,
\* and a non-JSON text of at most / more than 100 characters.
ResponseBodies ==
    {"unreadable", "empty", "json_detail", "json_no_detail", "json_null",
     "short_text", "long_text"}

\* jsonDecodes for a parser that accepts any text
jsonDecodesAnyText(body) == body # "unreadable"

\* response.json() resolves (otherwise it rejects)
jsonDecodes(body) == body \in {"json_detail", "json_no_detail", "json_null"}
\* the value response.json() resolves to
jsonValue(body) == IF body = "json_null" THEN "null" ELSE body
\* response.text() resolves (otherwise it rejects)
textReadable(body) == body # "unreadable"

\* What the network does with the one request of a call: a response, no
\* response within 30 s ("slow"), or a connection failure ("net_fail").
\* `len` is the number of characters of the body: 4 for null, 2 and more for
\* {...}, 13 and more for {"detail":"..."}.
cutLength == 100
MaxTextLen == 102
nullLength == 4
TextLengths(body) ==
    CASE body = "short_text" -> 1..cutLength
      [] body = "long_text" -> (cutLength + 1)..MaxTextLen
      [] body = "json_null" -> {nullLength}
      [] body = "json_no_detail" -> {1 + 1, MaxTextLen}
      [] body = "json_detail" -> {12 + 1, MaxTextLen}
      [] OTHER -> {0}

TextResponse(okStatus, ctype, body, len) ==
    [kind |-> "response", okStatus |-> okStatus, ctype |-> ctype, body |-> body,
     len |-> len]
NetResponse(okStatus, ctype, body) ==
    TextResponse(okStatus, ctype, body, CHOOSE n \in TextLengths(body) : TRUE)
NetFailure(kind) ==
    [kind |-> kind, okStatus |-> FALSE, ctype |-> "none", body |-> "empty",
     len |-> 0]
BodyTexts ==
    {bn \in ResponseBodies \X (0..MaxTextLen) : bn[2] \in TextLengths(bn[1])}
NetOutcomes ==
    {TextResponse(o, t, bn[1], bn[2]) :
        o \in BOOLEAN, t \in ContentTypes, bn \in BodyTexts}
    \cup {NetFailure("slow"), NetFailure("net_fail")}

FetchThrew(msg) == [ok |-> FALSE, msg |-> msg, value |-> "none"]
FetchReturned(value) == [ok |-> TRUE, msg |-> "", value |-> value]

\* lines 58-78: the message of the error thrown for a non-success status
errorMessage(net) ==
    IF net.ctype = "json"
    THEN IF ~jsonDecodes(net.body) THEN MsgStatusLine
         ELSE IF net.body = "json_null" THEN MsgStatusLine  \* TypeError on .detail
         ELSE IF net.body = "json_detail" THEN MsgDetail
         ELSE MsgDefault
    ELSE IF ~textReadable(net.body) THEN MsgStatusLine
         ELSE IF net.body = "empty" THEN MsgDefault
         ELSE IF net.len > cutLength THEN MsgRawTextCut
         ELSE MsgRawText

\* The characters of a message: `taken` leading characters of the response
\* text, followed by '...' when `dots`.
Text(taken, dots) == [taken |-> taken, dots |-> dots]
NoText == Text(0, FALSE)
textLength(text) == text.taken + (IF text.dots THEN 3 ELSE 0)

\* cutText for a transport that also cuts a text of exactly 100 characters
cutTextFrom100(len) ==
    IF len >= cutLength THEN Text(cutLength, TRUE) ELSE Text(len, FALSE)

\* lines 69-71: errorMessage.substring(0, 100) + '...' when longer than 100
cutText(len) ==
    IF len > cutLength THEN Text(cutLength, TRUE) ELSE Text(len, FALSE)

\* lines 66-72: the characters of the message when it is the response text
errorText(net) ==
    IF net.kind = "response" /\ ~net.okStatus
       /\ errorMessage(net) \in {MsgRawText, MsgRawTextCut}
    THEN cutText(net.len)
    ELSE NoText

\* lines 27-37 and 101-105: the error of a request that the 30 s signal
\* aborted.  AbortSignal.timeout aborts with a DOMException named
\* 'TimeoutError', the AbortController fallback with one named 'AbortError';
\* the catch block rewrites only the latter.
timeoutError(signalTimeout) ==
    IF signalTimeout THEN FetchThrew(MsgSignalTimeout) ELSE FetchThrew(MsgTimeout)

\* lines 49-113: the result of a call whose request had the outcome `net`
fetchOutcome(signalTimeout, net) ==
    CASE net.kind = "slow" -> timeoutError(signalTimeout)
      [] net.kind = "net_fail" -> FetchThrew(MsgNetwork)
      [] net.kind = "response" /\ ~net.okStatus -> FetchThrew(errorMessage(net))
      [] net.kind = "response" /\ net.okStatus ->
            IF net.ctype = "none" THEN FetchReturned("null")
            ELSE IF net.ctype = "json"
            THEN IF jsonDecodes(net.body)
                 THEN FetchReturned(jsonValue(net.body))
                 ELSE FetchThrew(MsgBadJson)
            ELSE IF textReadable(net.body)
                 THEN FetchReturned("text")
                 ELSE FetchThrew(MsgReadError)

\* fetchAgain for a transport that repeats a request the network failed
fetchAgainOnNetworkFailure(net) == net.kind = "net_fail"

\* fetchAPI has no loop around line 53: after no outcome is the request
\* issued again
fetchAgain(net) == FALSE

\* the `method` and `data` arguments of a call: data is absent or falsy
\* (null, 0, ''), a value JSON.stringify accepts, or one it throws on (a
\* cyclic object, a BigInt)
Methods == {"GET", "POST", "PUT", "PATCH", "DELETE"}
DataKinds == {"none", "falsy", "plain", "cyclic"}

MsgNotSerializable == "not_serializable" \* 'Не удалось преобразовать данные в JSON'

\* attachesBody for a transport that serializes data for every method
attachesBodyAnyMethod(method, data) == data \in {"plain", "cyclic"}

\* line 40: data && ['POST', 'PUT', 'PATCH'].includes(method)
attachesBody(method, data) ==
    data \in {"plain", "cyclic"} /\ method \in {"POST", "PUT", "PATCH"}

\* line 42: JSON.stringify(data) returns (otherwise it throws)
serializes(data) == data # "cyclic"

\* no fetchAPI call is followed on its own
NoFetch ==
    [phase |-> "none", auth |-> FALSE, signalTimeout |-> FALSE,
     method |-> "GET", data |-> "none", body |-> FALSE, requests |-> 0,
     net |-> NetFailure("none"), result |-> FetchThrew(""), text |-> NoText]

\* a call of fetchAPI(endpoint, method, data, auth) that is about to start,
\* in a browser with or without AbortSignal.timeout
FetchCalls ==
    {[NoFetch EXCEPT !.phase = "called", !.auth = a, !.signalTimeout = s,
                     !.method = m, !.data = d] :
        a \in BOOLEAN, s \in BOOLEAN, m \in Methods, d \in DataKinds}

\* ------------------------------------------------- analyzeTransaction
requiredFields ==
    <<"id", "amount", "origin_account", "dest_account",
      "old_balance_orig", "new_balance_orig",
      "old_balance_dest", "new_balance_dest",
      "hour", "day", "month">>

FieldSet == {requiredFields[i] : i \in DOMAIN requiredFields}

\* A payload is either not an object (null, a number, ...) or an object
\* with some of the fields.
Payloads ==
    {[isObject |-> FALSE, fields |-> {}]} \cup
    {[isObject |-> TRUE, fields |-> f] : f \in SUBSET FieldSet}

\* the object the form handler builds (part_000 lines 268-281)
FormTransactionData == [isObject |-> TRUE, fields |-> FieldSet]

MissingFrom(p, i) == requiredFields[i] \notin p.fields

\* FirstMissing with the loop running from the last field to the first
FirstMissingBackwards(p) ==
    IF \E i \in DOMAIN requiredFields : MissingFrom(p, i)
    THEN CHOOSE i \in DOMAIN requiredFields :
            /\ MissingFrom(p, i)
            /\ \A k \in (i + 1)..Len(requiredFields) : ~MissingFrom(p, k)
    ELSE 0

\* the for-loop of lines 225-229: index of the first missing field, 0 if none
FirstMissing(p) ==
    IF \E i \in DOMAIN requiredFields : MissingFrom(p, i)
    THEN CHOOSE i \in DOMAIN requiredFields :
            /\ MissingFrom(p, i)
            /\ \A k \in 1..(i - 1) : ~MissingFrom(p, k)
    ELSE 0

\* lines 215-229: the error thrown before any request, or "" when valid
validateTransaction(p) ==
    IF ~p.isObject THEN [msg |-> MsgNoData, field |-> ""]
    ELSE IF FirstMissing(p) # 0
         THEN [msg |-> MsgMissingField, field |-> requiredFields[FirstMissing(p)]]
         ELSE [msg |-> "", field |-> ""]

\* analyzeTransaction with the retry test of getPrediction in its catch block
analyzeRethrowsUnlessServer(msg) == msg # "" /\ ~Includes(msg, WServer)

\* lines 242-245: the catch block of analyzeTransaction rethrows every error
analyzeRethrows(msg) == TRUE

\* missingPredictionId that accepts a body without prediction_id
missingPredictionIdOnlyNull(prediction) == prediction.isNull

\* part_000 line 296: !prediction || !prediction.prediction_id
missingPredictionId(prediction) == prediction.isNull \/ ~prediction.hasId

\* ------------------------------------------------------- getPrediction
\* getPredictionRethrows treating the auth error like a server error
getPredictionRethrowsUnlessAuth(retries, msg) ==
    retries >= maxRetries \/ (msg # "" /\ msg # MsgAuth /\ ~Includes(msg, WServer))

\* getPredictionRethrows without the test of the message
getPredictionRethrowsAtMaxOnly(retries, msg) == retries >= maxRetries

\* getPredictionRethrows treating 'Internal Server Error' like a message
\* about the server
getPredictionRethrowsUnlessISE(retries, msg) ==
    retries >= maxRetries
    \/ (msg # "" /\ ~Includes(msg, WServer) /\ ~Includes(msg, WISE))

\* line 273, evaluated after retries++ : does the catch block rethrow?
getPredictionRethrows(retries, msg) ==
    retries >= maxRetries \/ (msg # "" /\ ~Includes(msg, WServer))

\* ------------------------------------------------ checkPredictionStatus
RECURSIVE Pow(_, _)
Pow(b, n) == IF n = 0 THEN 1 ELSE b * Pow(b, n - 1)

Min(a, b) == IF a <= b THEN a ELSE b

\* pendingDelay without the Math.min
pendingDelayUnclamped(retryCount) ==
    (baseDelay * Pow(3, retryCount)) \div Pow(2, retryCount)

\* line 420: Math.min(baseDelay * Math.pow(1.5, retryCount), maxDelay)
pendingDelay(retryCount) ==
    Min((baseDelay * Pow(3, retryCount)) \div Pow(2, retryCount), maxDelay)

\* needsRefundRefresh without the test of the result's marker
needsRefundRefreshFailedOnly(prediction) == prediction.status = "failed"

\* lines 395-398: is a delayed balance refresh scheduled for this payload?
needsRefundRefresh(prediction) ==
    prediction.status = "failed" \/ prediction.marker

\* statusBranch with the two message tests of the catch block swapped
statusBranchServerErrorFirst(r) ==
    IF r.ok
    THEN IF r.value.isNull THEN "other"
         ELSE IF r.value.status # "pending" THEN "terminal" ELSE "pending"
    ELSE IF r.msg # "" /\ Includes(r.msg, WISE) THEN "server_error"
         ELSE IF r.msg # "" /\ Includes(r.msg, WNotFound) THEN "not_found"
         ELSE "other"

\* statusBranch with line 388 testing for 'completed' instead of 'pending'
statusBranchCompletedOnly(r) ==
    IF r.ok
    THEN IF r.value.isNull THEN "other"
         ELSE IF r.value.status = "completed" THEN "terminal" ELSE "pending"
    ELSE IF r.msg # "" /\ Includes(r.msg, WNotFound) THEN "not_found"
         ELSE IF r.msg # "" /\ Includes(r.msg, WISE) THEN "server_error"
         ELSE "other"

\* statusBranch with every error that is not 'not found' taken for a
\* server error
statusBranchRetriesAnyError(r) ==
    IF r.ok
    THEN IF r.value.isNull THEN "other"
         ELSE IF r.value.status # "pending" THEN "terminal" ELSE "pending"
    ELSE IF r.msg # "" /\ Includes(r.msg, WNotFound) THEN "not_found"
         ELSE "server_error"

\* statusBranch with a 'not found' error handled like a finished job
statusBranchNotFoundIsTerminal(r) ==
    IF r.ok
    THEN IF r.value.isNull THEN "other"
         ELSE IF r.value.status # "pending" THEN "terminal" ELSE "pending"
    ELSE IF r.msg # "" /\ Includes(r.msg, WNotFound) THEN "terminal"
         ELSE IF r.msg # "" /\ Includes(r.msg, WISE) THEN "server_error"
         ELSE "other"

\* statusBranch for a poller that ends only on the statuses it knows
statusBranchKnownStatusesOnly(r) ==
    IF r.ok
    THEN IF r.value.isNull THEN "other"
         ELSE IF r.value.status \in {"completed", "failed"} THEN "terminal"
         ELSE "pending"
    ELSE IF r.msg # "" /\ Includes(r.msg, WNotFound) THEN "not_found"
         ELSE IF r.msg # "" /\ Includes(r.msg, WISE) THEN "server_error"
         ELSE "other"

\* lines 383-388 and 427-485: which branch handles the result `r` of
\* getPrediction
statusBranch(r) ==
    IF r.ok
    THEN IF r.value.isNull THEN "other"
         ELSE IF r.value.status # "pending" THEN "terminal" ELSE "pending"
    ELSE IF r.msg # "" /\ Includes(r.msg, WNotFound) THEN "not_found"
         ELSE IF r.msg # "" /\ Includes(r.msg, WISE) THEN "server_error"
         ELSE "other"

\* line 451: is another query scheduled after a server error?
errorRetryAllowed(count) == count <= maxErrorRetries

\* pendingTimers with the setTimeout of lines 424-426 left out
pendingTimersNone == 1 - 1

\* pendingTimers with the setTimeout of lines 424-426 executed twice
pendingTimersTwice == 1 + 1

\* number of timers registered after a pending response (lines 424-426):
\* the single setTimeout at the end of the try block
pendingTimers == 1

\* startsPolling for a handler that polls every job not yet completed
startsPollingUnlessCompleted(prediction) == prediction.status # "completed"

\* line 301: prediction.status === 'pending'
startsPolling(prediction) == prediction.status = "pending"

\* initialTimers with the setTimeout of lines 307-309 executed twice
initialTimersTwice == 1 + 1

\* number of timers registered for a submission answered with pending
\* (lines 307-309): one setTimeout
initialTimers == 1

\* handlePredictionError, lines 329-361: what the result panel shows
predictionErrorPanel(msg) ==
    IF msg # "" /\ Includes(msg, WBalance) THEN "top_up"
    ELSE IF msg # "" /\ Includes(msg, WISE) THEN "unavailable"
    ELSE "analysis_error"

\* ------------------------------------------------------------ loadBalance
MsgBadBalance == "bad_balance"     \* 'Неверный формат данных баланса'
MsgNotAFunction == "not_a_function" \* TypeError: ...toFixed is not a function

balanceRetryDelay == 3000
MaxBalanceRequests == 6

\* GET /api/balance/: the body has a numeric `balance`, a numeric `amount`
\* (and no balance), a `balance` that is not a number, or neither field
BalanceKinds == {"balance", "amount", "balance_text", "neither"}
BalanceBody(kind) == [isNull |-> FALSE, kind |-> kind]
BalanceOutcomes ==
    {[resp |-> "ok", body |-> BalanceBody(k)] : k \in BalanceKinds} \cup
    {[resp |-> f, body |-> Null] : f \in Failures}

\* part_000 lines 858-868: what the try block of loadBalance ends with
balanceResult(net) ==
    LET r == fetchResult(net.resp, net.body) IN
    IF ~r.ok THEN r
    ELSE IF r.value.isNull THEN Threw(MsgBadBalance)
    ELSE IF r.value.kind \in {"balance", "amount"} THEN r
    ELSE IF r.value.kind = "balance_text" THEN Threw(MsgNotAFunction)
    ELSE Threw(MsgBadBalance)

\* balanceRetryAllowed for a loadBalance with the poller's retry budget
balanceRetryAllowedUpToMax(count) == count <= maxErrorRetries

\* lines 873-875: the setTimeout is unconditional inside the branch; `count`
\* is the number of timers this refresh has registered, this one included
balanceRetryAllowed(count) == TRUE

\* no loadBalance call is followed on its own
NoBalance ==
    [phase |-> "none", requests |-> 0, retries |-> 0, delay |-> 0,
     shown |-> "none", last |-> Threw("")]
BalanceCall == [NoBalance EXCEPT !.phase = "called"]

\* ------------------------------------------------------------------ Auth
\* number of login or register forms submitted in one page session
MaxLogins == 2

\* values of a token: "none" is null / undefined / no item in localStorage,
\* "undefined" the text localStorage keeps for setItem('token', undefined)
Tokens == {"t1", "t2"}

\* no login or registration is under way
NoLogin ==
    [kind |-> "none", phase |-> "idle",
     before |-> [lsToken |-> "none", memToken |-> "none", isAuthenticated |-> FALSE]]

\* the Auth object of a page whose checkAuth() has finished: logged in with
\* a stored token and user, or logged out
AuthSettled(tok) ==
    [lsToken |-> IF tok THEN "t1" ELSE "none",
     memToken |-> IF tok THEN "t1" ELSE "none",
     lsUser |-> tok, user |-> tok, uiUser |-> tok,
     check |-> "done", login |-> NoLogin, logins |-> 0]

\* auth.js lines 5-8 and 28, part_000 line 32: the Auth object after
\* `new Auth()`, with checkAuth() about to run; localStorage may or may not
\* hold a user next to the token
AuthConstructed(tok) ==
    {[AuthSettled(tok) EXCEPT !.lsUser = u, !.user = u, !.uiUser = tok /\ u,
                              !.check = "called"] : u \in BOOLEAN}

\* auth.js lines 141-150: what handleLogout leaves of the Auth object
loggedOut(a) ==
    [a EXCEPT !.lsToken = "none", !.lsUser = FALSE, !.memToken = "none",
              !.user = FALSE, !.uiUser = FALSE]

\* POST /api/token: rejected, or a JSON body with or without access_token
LoginOutcomes == {"fail", "no_token"} \cup Tokens
\* GET /api/users/me: failed, a user object, or a response without content
UserOutcomes == {"fail", "user", "null"}

\* ------------------------------------------------------------------ state
VARIABLES
    sessionJobs,                \* how many transactions the user submits in all
    sessionPending,             \* how many pending answers the server gives in all
    token,                      \* localStorage has a 'token' item
    isAuthenticated,            \* Auth.isAuthenticated
    predictionRetryCount,       \* App.predictionRetryCount (undefined reads as 0)
    predictionErrorRetryCount,  \* App.predictionErrorRetryCount (likewise)
    timers,                     \* bag of registered setTimeout callbacks
    calls,                      \* bag of awaited HTTP requests and retry sleeps
    sub,                        \* progress of each submission
    rendered,                   \* per job: what its handlers last wrote to the panel
    panelOwner,                 \* the job whose handler wrote the panel last (0: none)
    txData,                     \* the payload handed to analyzeTransaction
    txError,                    \* the validation error it threw, if any
    postCount,                  \* POST /api/predictions/predict requests issued
    submitResult,               \* per job: what analyzeTransaction gave the handler
    transport,                  \* a fetchAPI call followed on its own (NoFetch if none)
    balance,                    \* a loadBalance() call followed on its own (NoBalance if none)
    auth,                       \* the Auth object and the login under way
    httpCount,                  \* per job: GET status requests issued by the poller
    nPending,                   \* per job: pending responses its poller handled
    lastDelay,                  \* per job: delay set after its last pending response
    consecErrors,               \* per job: server errors in a row seen by its poller
    errorsSeen,                 \* per job: server errors seen by its poller in all
    failed,                     \* per job: status requests of its poller that failed
    lastResult,                 \* per job: what getPrediction last gave its poller
    reports,                    \* per job: terminal payloads shown by its poller
    refreshes,                  \* per job: immediate loadBalance() calls it caused
    delayed,                    \* per job: delayed loadBalance() calls it scheduled
    fetchRetries,               \* requests retried inside getPrediction so far
    lateRefreshes               \* loadBalance() calls made by fired refresh timers

vars ==
    <<sessionJobs, sessionPending, token, isAuthenticated, predictionRetryCount,
      predictionErrorRetryCount,
      timers, calls, sub, rendered, panelOwner, txData, txError, postCount, submitResult,
      transport, balance, auth, httpCount,
      nPending, lastDelay, consecErrors, errorsSeen, failed, lastResult,
      reports, refreshes, delayed, fetchRetries, lateRefreshes>>

\* loadBalance() (lines 854-880) reads Auth, issues GET /api/balance/ and
\* writes the balance widget; none of that is read by the handlers modelled
\* here, so each call of it is recorded (refreshes, lateRefreshes) and its
\* request is not followed.

authVars == <<sessionJobs, sessionPending, token, isAuthenticated>>
txVars == <<txData, txError, postCount, submitResult>>
appVars == <<predictionRetryCount, predictionErrorRetryCount>>
pollVars ==
    <<rendered, panelOwner, nPending, lastDelay, consecErrors, errorsSeen, lastResult,
      reports, refreshes, delayed>>

Panel(kind, status) == [panel |-> kind, status |-> status]

\* this.resultContent.innerHTML = ... in a handler working for job j: the
\* one result panel of the page now shows what that handler wrote
Shows(j, panel) ==
    /\ rendered' = [rendered EXCEPT ![j] = panel]
    /\ panelOwner' = j

\* an awaited getPrediction or POST: who awaits it, for which job, whether a
\* request is out ("fetch") or the retry sleep runs ("wait"), the value of
\* `retries` and, during the sleep, the message of the error caught and the
\* length of the sleep
Call(who, j) ==
    [who |-> who, job |-> j, phase |-> "fetch", retries |-> 0, err |-> "",
     delay |-> 0]
Timer(fn, j, delay) == [fn |-> fn, job |-> j, delay |-> delay]

\* how a job payload is named in `rendered`: its status, or "refund" for a
\* completed job whose result carries the refund marker
payloadLabel(body) ==
    IF body.status = "completed" /\ body.marker THEN "refund" ELSE body.status

One(x) == SetToBag({x})
Copies(x, n) == IF n = 0 THEN EmptyBag ELSE [e \in {x} |-> n]

\* the job as the server reports it in a success response: pending,
\* completed, completed with the refund marker in its result, failed
JobBodies ==
    {Body(TRUE, "pending", FALSE), Body(TRUE, "completed", FALSE),
     Body(TRUE, "completed", TRUE), Body(TRUE, "failed", FALSE)}

\* a network outcome: the response and, for a success, its decoded body
Outcome(resp, body) == [resp |-> resp, body |-> body]

\* GET /api/predictions/{id}
StatusOutcomes ==
    {Outcome("ok", b) : b \in JobBodies} \cup
    {Outcome(f, Null) : f \in Failures \ {"http_402"}}

\* POST /api/predictions/predict: the job, or a body without prediction_id
SubmitOutcomes ==
    {Outcome("ok", b) : b \in JobBodies \cup {Body(FALSE, "pending", FALSE)}} \cup
    {Outcome(f, Null) : f \in Failures}

\* the state after `new App()`, for a user who will submit n transactions
\* whose payloads all are `txData`, one of `payloads`
AppStartWith(n, payloads, pendings) ==
    /\ sessionJobs = n
    /\ sessionPending = pendings
    /\ token \in BOOLEAN
    /\ isAuthenticated = token
    /\ predictionRetryCount = 0
    /\ predictionErrorRetryCount = 0
    /\ timers = EmptyBag
    /\ calls = EmptyBag
    /\ sub = [j \in Jobs |-> "new"]
    /\ rendered = [j \in Jobs |-> Panel("none", "")]
    /\ panelOwner = 0
    /\ txData \in payloads
    /\ txError = [msg |-> "", field |-> ""]
    /\ postCount = 0
    /\ submitResult = [j \in Jobs |-> Threw("")]
    /\ httpCount = [j \in Jobs |-> 0]
    /\ nPending = [j \in Jobs |-> 0]
    /\ lastDelay = [j \in Jobs |-> 0]
    /\ consecErrors = [j \in Jobs |-> 0]
    /\ errorsSeen = [j \in Jobs |-> 0]
    /\ failed = [j \in Jobs |-> 0]
    /\ lastResult = [j \in Jobs |-> Threw("")]
    /\ reports = [j \in Jobs |-> 0]
    /\ refreshes = [j \in Jobs |-> 0]
    /\ delayed = [j \in Jobs |-> 0]
    /\ fetchRetries = 0
    /\ lateRefreshes = 0

AppStart(n, payloads) == AppStartWith(n, payloads, MaxPending)

Start(n, payloads) ==
    /\ AppStart(n, payloads)
    /\ transport = NoFetch
    /\ balance = NoBalance
    /\ auth = AuthSettled(token)

\* the page as it is: the form handler builds the payload
Session(n) == Start(n, {FormTransactionData})

Init == Session(MaxJobs)

\* ------------------------------------------------ checkPredictionStatus
\* lines 383-486: everything checkPredictionStatus(j) does once
\* getPrediction has returned or thrown `r`; callsBase and timersBase are
\* the bags without the request and the timer that led here.
PollerHandle(j, r, callsBase, timersBase) ==
    LET br == statusBranch(r) IN
    /\ UNCHANGED <<authVars, auth, transport, balance, txVars, sub, lateRefreshes>>
    /\ lastResult' = [lastResult EXCEPT ![j] = r]
    /\ CASE br = "terminal" ->
              /\ Shows(j, Panel("result", payloadLabel(r.value)))
              /\ reports' = [reports EXCEPT ![j] = @ + 1]
              /\ calls' = callsBase
              /\ refreshes' = [refreshes EXCEPT ![j] = @ + 1]
              /\ IF needsRefundRefresh(r.value)
                 THEN /\ timers' = timersBase (+)
                                      One(Timer("balance", 0, refundRefreshDelay))
                      /\ delayed' = [delayed EXCEPT ![j] = @ + 1]
                 ELSE /\ timers' = timersBase
                      /\ UNCHANGED delayed
              /\ UNCHANGED <<appVars, nPending, lastDelay, consecErrors, errorsSeen>>
         [] br = "pending" ->
              /\ Shows(j, Panel("processing", ""))
              /\ predictionRetryCount' = predictionRetryCount + 1
              /\ timers' = timersBase (+)
                     Copies(Timer("check", j, pendingDelay(predictionRetryCount)),
                            pendingTimers)
              /\ nPending' = [nPending EXCEPT ![j] = @ + 1]
              /\ lastDelay' = [lastDelay EXCEPT ![j] = pendingDelay(predictionRetryCount)]
              /\ consecErrors' = [consecErrors EXCEPT ![j] = 0]
              /\ calls' = callsBase
              /\ UNCHANGED <<predictionErrorRetryCount, errorsSeen, reports,
                             refreshes, delayed>>
         [] br = "not_found" ->
              /\ Shows(j, Panel("not_found", ""))
              /\ calls' = callsBase
              /\ timers' = timersBase
              /\ UNCHANGED <<appVars, nPending, lastDelay, consecErrors, errorsSeen,
                             reports, refreshes, delayed>>
         [] br = "server_error" ->
              /\ predictionErrorRetryCount' = predictionErrorRetryCount + 1
              /\ consecErrors' = [consecErrors EXCEPT ![j] = @ + 1]
              /\ errorsSeen' = [errorsSeen EXCEPT ![j] = @ + 1]
              /\ IF errorRetryAllowed(predictionErrorRetryCount + 1)
                 THEN /\ Shows(j, Panel("difficulties", ""))
                      /\ timers' = timersBase (+) One(Timer("check", j, errorRetryDelay))
                 ELSE /\ Shows(j, Panel("technical", ""))
                      /\ timers' = timersBase
              /\ calls' = callsBase
              /\ UNCHANGED <<predictionRetryCount, nPending, lastDelay, reports,
                             refreshes, delayed>>
         [] br = "other" ->
              /\ Shows(j, Panel("status_error", ""))
              /\ calls' = callsBase
              /\ timers' = timersBase
              /\ UNCHANGED <<appVars, nPending, lastDelay, consecErrors, errorsSeen,
                             reports, refreshes, delayed>>

\* What the caller of getPrediction does with its result: the poller
\* (checkPredictionStatus) or a manual check-status handler (lines 726-756,
\* 820-849), which only re-renders the history list.
CallerHandle(who, j, r, callsBase, timersBase) ==
    IF who = "poll"
    THEN /\ statusBranch(r) = "pending" => predictionRetryCount < sessionPending
         /\ PollerHandle(j, r, callsBase, timersBase)
    ELSE /\ calls' = callsBase
         /\ timers' = timersBase
         /\ UNCHANGED <<authVars, auth, transport, balance, txVars, appVars, pollVars, sub, lateRefreshes>>

\* the failed-request count of job j after a fetchAPI call of `who` threw
failedAfter(who, j) ==
    IF who = "poll" THEN [failed EXCEPT ![j] = @ + 1] ELSE failed

\* getPrediction, lines 262-281: one pass of the while loop for the caller
\* `c` (its retries so far in c.retries), entered at the fetchAPI call
GetPredictionPass(c, callsBase, timersBase) ==
    IF fetchNeedsToken(TRUE, token)
    THEN \* fetchAPI throws before any request
         IF getPredictionRethrows(c.retries + 1, MsgAuth)
         THEN /\ CallerHandle(c.who, c.job, Threw(MsgAuth), callsBase, timersBase)
              /\ failed' = failedAfter(c.who, c.job)
              /\ UNCHANGED <<httpCount, fetchRetries>>
         ELSE /\ fetchRetries < MaxFetchRetries
              /\ fetchRetries' = fetchRetries + 1
              /\ calls' = callsBase (+)
                     One([c EXCEPT !.phase = "wait", !.retries = c.retries + 1,
                                   !.err = MsgAuth, !.delay = retryDelay])
              /\ timers' = timersBase
              /\ failed' = failedAfter(c.who, c.job)
              /\ UNCHANGED <<authVars, auth, transport, balance, txVars, appVars, pollVars, sub, httpCount,
                             lateRefreshes>>
    ELSE /\ calls' = callsBase (+)
                One([c EXCEPT !.phase = "fetch", !.err = "", !.delay = 0])
         /\ timers' = timersBase
         /\ httpCount' = IF c.who = "poll"
                         THEN [httpCount EXCEPT ![c.job] = @ + 1]
                         ELSE httpCount
         /\ UNCHANGED <<authVars, auth, transport, balance, txVars, appVars, pollVars, sub, failed,
                        fetchRetries, lateRefreshes>>

\* keptOnSubmit for a handler that clears the timers of earlier jobs
keptOnSubmitOwnOnly(t, j) == t.fn # "check" \/ t.job = j

\* lines 245-321 hold no clearTimeout and keep no timer id: every timer
\* registered before submission j is still registered after it
keptOnSubmit(t, j) == TRUE

TimersKept(j) == [t \in {x \in BagToSet(timers) : keptOnSubmit(x, j)} |-> timers[t]]

\* ---------------------------------------------------------------- actions
\* handlePrediction -> handleTransactionAnalysis (lines 223-321) for the
\* j-th submission of the session, up to the await of the POST.
HandleTransactionAnalysis(j) ==
    /\ isAuthenticated
    /\ j <= sessionJobs
    /\ sub[j] = "new"
    /\ j > 1 => sub[j - 1] # "new"
    /\ LET v == validateTransaction(txData) IN
       IF v.msg # ""
       THEN \* analyzeTransaction throws before fetchAPI is called
            /\ txError' = v
            /\ submitResult' = [submitResult EXCEPT ![j] = Threw(v.msg)]
            /\ Shows(j, Panel(predictionErrorPanel(v.msg), ""))
            /\ sub' = [sub EXCEPT ![j] = "done"]
            /\ UNCHANGED <<calls, postCount>>
       ELSE IF fetchNeedsToken(TRUE, token)
       THEN /\ Shows(j, Panel(predictionErrorPanel(MsgAuth), ""))
            /\ submitResult' = [submitResult EXCEPT ![j] = Threw(MsgAuth)]
            /\ sub' = [sub EXCEPT ![j] = "done"]
            /\ UNCHANGED <<calls, postCount, txError>>
       ELSE /\ Shows(j, Panel("loading", ""))
            /\ calls' = calls (+) One(Call("submit", j))
            /\ postCount' = postCount + 1
            /\ sub' = [sub EXCEPT ![j] = "posting"]
            /\ UNCHANGED <<txError, submitResult>>
    /\ timers' = TimersKept(j)
    /\ UNCHANGED <<authVars, auth, transport, balance, appVars, txData, httpCount, nPending,
                   lastDelay, consecErrors, errorsSeen, failed, lastResult,
                   reports, refreshes, delayed, fetchRetries, lateRefreshes>>

\* api.js lines 238-245 and part_000 lines 292-320: the POST of
\* submission j resolves
SubmitResponse(c, net) ==
    /\ c \in BagToSet(calls)
    /\ c.who = "submit"
    /\ LET r == fetchResult(net.resp, net.body)
           j == c.job
           callsBase == calls (-) One(c)
       IN
       IF ~r.ok /\ ~analyzeRethrows(r.msg)
       THEN \* the POST is issued again
            /\ postCount' = postCount + 1
            /\ UNCHANGED <<calls, timers, rendered, panelOwner, sub, refreshes,
                           submitResult>>
       ELSE
       /\ submitResult' = [submitResult EXCEPT ![j] = r]
       /\ UNCHANGED postCount
       /\ IF ~r.ok \/ missingPredictionId(r.value)
          THEN /\ Shows(j, Panel(predictionErrorPanel(IF r.ok THEN MsgNoId ELSE r.msg), ""))
               /\ calls' = callsBase
               /\ sub' = [sub EXCEPT ![j] = "done"]
               /\ UNCHANGED <<timers, refreshes>>
          ELSE IF startsPolling(r.value)
          THEN /\ Shows(j, Panel("result", payloadLabel(r.value)))
               /\ timers' = timers (+)
                      Copies(Timer("check", j, initialPollDelay), initialTimers)
               /\ calls' = callsBase
               /\ sub' = [sub EXCEPT ![j] = "polling"]
               /\ UNCHANGED refreshes
          ELSE /\ Shows(j, Panel("result", payloadLabel(r.value)))
               /\ calls' = callsBase
               /\ refreshes' = [refreshes EXCEPT ![j] = @ + 1]
               /\ sub' = [sub EXCEPT ![j] = "done"]
               /\ UNCHANGED timers
    /\ UNCHANGED <<authVars, auth, transport, balance, appVars, txData, txError, httpCount,
                   nPending, lastDelay, consecErrors, errorsSeen, failed,
                   lastResult, reports, delayed, fetchRetries, lateRefreshes>>

\* a timer registered at line 307, 424 or 455 fires: checkPredictionStatus
CheckTimerFire(t) ==
    /\ t \in BagToSet(timers)
    /\ t.fn = "check"
    /\ GetPredictionPass(Call("poll", t.job), calls, timers (-) One(t))

\* a GET /api/predictions/{id} issued by getPrediction resolves
StatusResponse(c, net) ==
    /\ c \in BagToSet(calls)
    /\ c.who \in {"poll", "manual"}
    /\ c.phase = "fetch"
    /\ LET r == fetchResult(net.resp, net.body)
           callsBase == calls (-) One(c)
       IN
       IF r.ok \/ getPredictionRethrows(c.retries + 1, r.msg)
       THEN /\ CallerHandle(c.who, c.job, r, callsBase, timers)
            /\ failed' = IF r.ok THEN failed ELSE failedAfter(c.who, c.job)
            /\ UNCHANGED <<httpCount, fetchRetries>>
       ELSE \* line 279: sleep retryDelay, then loop
            /\ fetchRetries < MaxFetchRetries
            /\ fetchRetries' = fetchRetries + 1
            /\ calls' = callsBase (+)
                   One([c EXCEPT !.phase = "wait", !.retries = c.retries + 1,
                                 !.err = r.msg, !.delay = retryDelay])
            /\ failed' = failedAfter(c.who, c.job)
            /\ UNCHANGED <<authVars, auth, transport, balance, txVars, appVars, pollVars, sub, timers,
                           httpCount, lateRefreshes>>

\* the sleep of line 279 ends: next pass of the while loop
RetryWake(c) ==
    /\ c \in BagToSet(calls)
    /\ c.phase = "wait"
    /\ GetPredictionPass(c, calls (-) One(c), timers)

ManualCalls == {c \in BagToSet(calls) : c.who = "manual"}

\* a click on a check-status button of the history list (lines 726-737,
\* 820-830); the button exists for jobs the list showed as pending
ManualCheck(j) ==
    /\ isAuthenticated
    /\ sub[j] = "polling"
    /\ ~fetchNeedsToken(TRUE, token)
    /\ BagCardinality([c \in ManualCalls |-> calls[c]]) < MaxManual
    /\ GetPredictionPass(Call("manual", j), calls, timers)

\* the timer of line 400 fires: loadBalance()
BalanceTimerFire(t) ==
    /\ t \in BagToSet(timers)
    /\ t.fn = "balance"
    /\ timers' = timers (-) One(t)
    /\ lateRefreshes' = lateRefreshes + 1
    /\ UNCHANGED <<authVars, auth, transport, balance, txVars, appVars, pollVars, sub, calls, httpCount,
                   failed, fetchRetries>>

\* Auth.handleLogout, auth.js lines 138-151
HandleLogout ==
    /\ isAuthenticated
    /\ token' = FALSE
    /\ isAuthenticated' = FALSE
    /\ auth' = loggedOut(auth)
    /\ UNCHANGED <<sessionJobs, sessionPending, transport, balance, txVars, appVars, pollVars, sub, timers, calls, httpCount,
                   failed, fetchRetries, lateRefreshes>>

\* ------------------------------------------------------------ Auth, followed
authFrame ==
    UNCHANGED <<sessionJobs, sessionPending, transport, balance, txVars, appVars,
                pollVars, sub, timers, calls, httpCount, failed, fetchRetries,
                lateRefreshes>>

\* lines 76-85 (and 120-129, 211-214): the user request resolved with `u`
\* inside a try block; what it leaves of the Auth object
userStored(a, u) ==
    [a EXCEPT !.user = (u = "user"), !.lsUser = (u = "user"),
              !.uiUser = (u = "user")]

\* checkAuthStatus, lines 209-223, up to the await
CheckAuthStatus ==
    /\ auth.check = "called"
    /\ IF auth.memToken = "none"
       THEN /\ auth' = [auth EXCEPT !.check = "done",
                                    !.uiUser = isAuthenticated /\ auth.user]
            /\ UNCHANGED <<token, isAuthenticated>>
       ELSE IF fetchNeedsToken(TRUE, token)
       THEN /\ auth' = [loggedOut(auth) EXCEPT !.check = "done"]
            /\ token' = FALSE
            /\ isAuthenticated' = FALSE
       ELSE /\ auth' = [auth EXCEPT !.check = "waiting"]
            /\ UNCHANGED <<token, isAuthenticated>>
    /\ authFrame

\* the GET /api/users/me of checkAuthStatus resolves
CheckUserResponse(u) ==
    /\ auth.check = "waiting"
    /\ IF u = "fail"
       THEN /\ auth' = [loggedOut(auth) EXCEPT !.check = "done"]
            /\ token' = FALSE
            /\ isAuthenticated' = FALSE
       ELSE /\ auth' = [userStored(auth, u) EXCEPT !.check = "done"]
            /\ isAuthenticated' = TRUE
            /\ UNCHANGED token
    /\ authFrame

\* the login or the register form is submitted (lines 65-74, 101-111); the
\* forms are reachable while the page shows the guest buttons, once the
\* constructor of App (with its call of checkAuth) has returned
SubmitAuthForm(kind) ==
    /\ auth.check # "called"
    /\ ~auth.uiUser
    /\ auth.login.phase \in {"idle", "done", "failed"}
    /\ auth.logins < MaxLogins
    /\ auth' = [auth EXCEPT
                   !.logins = @ + 1,
                   !.login = [kind |-> kind,
                              phase |-> IF kind = "register" THEN "register_request"
                                        ELSE "token_request",
                              before |-> [lsToken |-> auth.lsToken,
                                          memToken |-> auth.memToken,
                                          isAuthenticated |-> isAuthenticated]]]
    /\ UNCHANGED <<token, isAuthenticated>>
    /\ authFrame

HandleLogin == SubmitAuthForm("login")
HandleRegister == SubmitAuthForm("register")

\* api.js lines 180-193: POST /api/register resolves, then POST /api/users
RegisterResponse(ok) ==
    /\ auth.login.phase \in {"register_request", "register_alt_request"}
    /\ auth' =
          IF ok THEN [auth EXCEPT !.login.phase = "token_request"]
          ELSE IF auth.login.phase = "register_request"
          THEN [auth EXCEPT !.login.phase = "register_alt_request"]
          ELSE [auth EXCEPT !.login.phase = "failed"]
    /\ UNCHANGED <<token, isAuthenticated>>
    /\ authFrame

\* lines 73-77 (114-121): POST /api/token resolves
LoginTokenResponse(t) ==
    /\ auth.login.phase = "token_request"
    /\ IF t = "fail"
       THEN /\ auth' = [auth EXCEPT !.login.phase = "failed"]
            /\ UNCHANGED token
       ELSE /\ auth' = [auth EXCEPT
                          !.memToken = IF t = "no_token" THEN "none" ELSE t,
                          !.lsToken = IF t = "no_token" THEN "undefined" ELSE t,
                          !.login.phase = "user_request"]
            /\ token' = TRUE
    /\ UNCHANGED isAuthenticated
    /\ authFrame

\* lines 77-92 (121-136): GET /api/users/me of the login resolves
LoginUserResponse(u) ==
    /\ auth.login.phase = "user_request"
    /\ IF u = "fail"
       THEN /\ auth' = [auth EXCEPT !.login.phase = "failed"]
            /\ UNCHANGED isAuthenticated
       ELSE /\ auth' = [userStored(auth, u) EXCEPT !.login.phase = "done"]
            /\ isAuthenticated' = TRUE
    /\ UNCHANGED token
    /\ authFrame

\* a click on the logout button, which the page shows to a logged-in user
AuthLogout ==
    /\ auth.check # "called"
    /\ auth.uiUser
    /\ HandleLogout

NextAuth ==
    \/ CheckAuthStatus
    \/ \E u \in UserOutcomes : CheckUserResponse(u)
    \/ HandleLogin
    \/ HandleRegister
    \/ \E ok \in BOOLEAN : RegisterResponse(ok)
    \/ \E t \in LoginOutcomes : LoginTokenResponse(t)
    \/ \E u \in UserOutcomes : LoginUserResponse(u)
    \/ AuthLogout

\* a page load followed by the user's logins, registrations and logouts
SpecAuth ==
    /\ AppStart(MaxJobs, {FormTransactionData})
    /\ transport = NoFetch
    /\ balance = NoBalance
    /\ auth \in AuthConstructed(token)
    /\ [][NextAuth]_vars

\* the logins of a page whose checkAuth() has finished, one at a time
NextLogin ==
    \/ HandleLogin
    \/ \E t \in LoginOutcomes : LoginTokenResponse(t)
    \/ \E u \in UserOutcomes : LoginUserResponse(u)

SpecLogin ==
    /\ AppStart(MaxJobs, {FormTransactionData})
    /\ transport = NoFetch
    /\ balance = NoBalance
    /\ auth \in {[a EXCEPT !.check = "done"] : a \in AuthConstructed(token)}
    /\ [][NextLogin]_vars

\* ---------------------------------------------------- loadBalance, followed
\* lines 854-859 and api.js 19-23: loadBalance up to the await of the request
loadBalanceEntry ==
    IF ~isAuthenticated
    THEN [balance EXCEPT !.phase = "done", !.delay = 0]
    ELSE IF fetchNeedsToken(TRUE, token)
    THEN [balance EXCEPT !.phase = "done", !.delay = 0, !.shown = "error",
                         !.last = Threw(MsgAuth)]
    ELSE [balance EXCEPT !.phase = "request", !.delay = 0, !.requests = @ + 1]

balanceFrame ==
    UNCHANGED <<authVars, auth, transport, txVars, appVars, pollVars, sub, timers,
                calls, httpCount, failed, fetchRetries, lateRefreshes>>

\* loadBalance() is called
LoadBalance ==
    /\ balance.phase = "called"
    /\ balance' = loadBalanceEntry
    /\ balanceFrame

\* lines 858-879: the request of loadBalance resolves
BalanceResponse(net) ==
    /\ balance.phase = "request"
    /\ LET r == balanceResult(net) IN
       IF r.ok
       THEN balance' = [balance EXCEPT !.phase = "done", !.shown = "value",
                                       !.last = r]
       ELSE IF r.msg # "" /\ Includes(r.msg, WISE)
       THEN IF balanceRetryAllowed(balance.retries + 1)
            THEN /\ balance.requests < MaxBalanceRequests
                 /\ balance' = [balance EXCEPT !.phase = "sleep",
                                    !.shown = "loading", !.last = r,
                                    !.retries = @ + 1,
                                    !.delay = balanceRetryDelay]
            ELSE balance' = [balance EXCEPT !.phase = "done",
                                !.shown = "loading", !.last = r]
       ELSE balance' = [balance EXCEPT !.phase = "done", !.shown = "error",
                                       !.last = r]
    /\ balanceFrame

\* the timer of line 875 fires: loadBalance()
BalanceRetryFire ==
    /\ balance.phase = "sleep"
    /\ balance' = loadBalanceEntry
    /\ balanceFrame

\* Auth.handleLogout while a balance refresh is under way
BalanceLogout ==
    /\ balance.phase \in {"request", "sleep"}
    /\ HandleLogout

NextBalance ==
    \/ LoadBalance
    \/ \E net \in BalanceOutcomes : BalanceResponse(net)
    \/ BalanceRetryFire
    \/ BalanceLogout

SpecBalance ==
    /\ AppStart(MaxJobs, {FormTransactionData})
    /\ transport = NoFetch
    /\ balance = BalanceCall
    /\ auth = AuthSettled(token)
    /\ [][NextBalance]_vars

\* ------------------------------------------------------ fetchAPI, followed
\* lines 12-47: fetchAPI up to the await of fetch()
FetchAPICall ==
    /\ transport.phase = "called"
    /\ transport' =
          IF fetchNeedsToken(transport.auth, token)
          THEN [transport EXCEPT !.phase = "settled", !.result = FetchThrew(MsgAuth)]
          ELSE IF attachesBody(transport.method, transport.data)
                  /\ ~serializes(transport.data)
          THEN [transport EXCEPT !.phase = "settled",
                                 !.result = FetchThrew(MsgNotSerializable)]
          ELSE [transport EXCEPT !.phase = "sent", !.requests = @ + 1,
                   !.body = attachesBody(transport.method, transport.data)]
    /\ UNCHANGED <<authVars, auth, balance, txVars, appVars, pollVars, sub, timers, calls,
                   httpCount, failed, fetchRetries, lateRefreshes>>

\* lines 53-113: the request settles and fetchAPI returns or throws
FetchAPISettle(net) ==
    /\ transport.phase = "sent"
    /\ transport' =
          IF fetchAgain(net)
          THEN [transport EXCEPT !.requests = @ + 1]
          ELSE [transport EXCEPT !.phase = "settled", !.net = net,
                                 !.result = fetchOutcome(transport.signalTimeout, net),
                                 !.text = errorText(net)]
    /\ UNCHANGED <<authVars, auth, balance, txVars, appVars, pollVars, sub, timers, calls,
                   httpCount, failed, fetchRetries, lateRefreshes>>

NextFetch ==
    \/ FetchAPICall
    \/ \E net \in NetOutcomes : FetchAPISettle(net)

SpecFetch ==
    /\ AppStart(MaxJobs, {FormTransactionData})
    /\ transport \in FetchCalls
    /\ balance = NoBalance
    /\ auth = AuthSettled(token)
    /\ [][NextFetch]_vars

PollNext ==
    \/ \E j \in Jobs : HandleTransactionAnalysis(j)
    \/ \E c \in BagToSet(calls), net \in SubmitOutcomes : SubmitResponse(c, net)
    \/ \E t \in BagToSet(timers) : CheckTimerFire(t)
    \/ \E c \in BagToSet(calls), net \in StatusOutcomes : StatusResponse(c, net)
    \/ \E c \in BagToSet(calls) : RetryWake(c)
    \/ \E t \in BagToSet(timers) : BalanceTimerFire(t)

\* the poller and the submissions of one logged-in page session
Next == PollNext

Spec == Init /\ [][Next]_vars

\* the same session with the history list's check-status buttons in use
NextManual ==
    \/ PollNext
    \/ \E j \in Jobs : ManualCheck(j)

SpecManual == Session(ManualJobs) /\ [][NextManual]_vars

\* the session of Spec in which the user may also log out at any time
NextSession ==
    \/ PollNext
    \/ HandleLogout

SpecSession == Init /\ [][NextSession]_vars

\* direct calls of the submit path with any payload
NextValidate ==
    \/ \E j \in Jobs : HandleTransactionAnalysis(j)
    \/ \E c \in BagToSet(calls), net \in SubmitOutcomes : SubmitResponse(c, net)

SpecValidate == Start(MaxJobs, Payloads) /\ [][NextValidate]_vars

\* one submission with any payload, followed through its polling
SoloJobs == 1
SpecSubmit == Start(SoloJobs, Payloads) /\ [][PollNext]_vars

\* GET /api/predictions/{id} of a server that may also report a status the
\* page does not know, or a body with no status field at all
OddBodies == {Body(TRUE, "cancelled", FALSE), Body(TRUE, "", FALSE)}
AnyStatusOutcomes == StatusOutcomes \cup {Outcome("ok", b) : b \in OddBodies}

NextStatus ==
    \/ \E j \in Jobs : HandleTransactionAnalysis(j)
    \/ \E c \in BagToSet(calls), net \in SubmitOutcomes : SubmitResponse(c, net)
    \/ \E t \in BagToSet(timers) : CheckTimerFire(t)
    \/ \E c \in BagToSet(calls), net \in AnyStatusOutcomes : StatusResponse(c, net)
    \/ \E c \in BagToSet(calls) : RetryWake(c)
    \/ \E t \in BagToSet(timers) : BalanceTimerFire(t)

\* one job polled against that server
SpecStatus == Session(SoloJobs) /\ [][NextStatus]_vars

\* ------------------------------------------------------------ properties
\* the order of the required fields
FieldOrder ==
    <<"id", "amount", "origin_account", "dest_account", "old_balance_orig",
      "new_balance_orig", "old_balance_dest", "new_balance_dest", "hour",
      "day", "month">>

MissingFields == {i \in DOMAIN FieldOrder : FieldOrder[i] \notin txData.fields}
Least(S) == CHOOSE i \in S : \A k \in S : i <= k
ValidPayload == txData.isObject /\ MissingFields = {}
SubmitCalls == {c \in BagToSet(calls) : c.who = "submit"}

\* C1: a payload that is no object or lacks a required field is rejected
\* with a validation error that names the first missing field, and no
\* request is ever issued for it; a request is issued only for a payload
\* that passed the whole validation.
C1_ValidationFailFast ==
    /\ ~ValidPayload => postCount = 0 /\ SubmitCalls = {}
    /\ (~txData.isObject /\ sub[1] # "new") =>
          /\ txError.msg = MsgNoData
          /\ rendered[1].panel = "analysis_error"
    /\ (txData.isObject /\ MissingFields # {} /\ sub[1] # "new") =>
          /\ txError.msg = MsgMissingField
          /\ txError.field = FieldOrder[Least(MissingFields)]
          /\ rendered[1].panel = "analysis_error"
    /\ (postCount > 0 \/ SubmitCalls # {}) => ValidPayload /\ txError.msg = ""

\* a payload without 'amount' and 'month' was rejected naming 'amount'
C1_Witness ==
    /\ sub[1] = "done"
    /\ txData.isObject
    /\ "id" \in txData.fields
    /\ "amount" \notin txData.fields
    /\ "month" \notin txData.fields
    /\ txError.field = "amount"
    /\ postCount = 0

PollCalls(j) == {c \in BagToSet(calls) : c.who = "poll" /\ c.job = j}
CheckTimers(j) == {t \in BagToSet(timers) : t.fn = "check" /\ t.job = j}
BalanceTimers == {t \in BagToSet(timers) : t.fn = "balance"}
Count(bag, S) == BagCardinality([x \in S |-> bag[x]])

\* no status query of job j's poller is out or scheduled
NoMoreQueries(j) == PollCalls(j) = {} /\ CheckTimers(j) = {}

IsTerminal(r) == r.ok /\ ~r.value.isNull /\ r.value.status # "pending"
IsCompleted(r) == IsTerminal(r) /\ r.value.status = "completed"
IsNotFound(r) == ~r.ok /\ Includes(r.msg, WNotFound)
IsOtherFailure(r) ==
    \/ r.ok /\ r.value.isNull
    \/ ~r.ok /\ r.msg # "" /\ ~Includes(r.msg, WNotFound) /\ ~Includes(r.msg, WISE)

\* C2: a job that answered pending, pending, completed, with no failed
\* query, was queried exactly 3 times, the delay set after the second
\* pending response was 2000 * 1.5 ms, and the result was reported once.
C2_ThreeQueriesOneReport ==
    \A j \in Jobs :
        (IsCompleted(lastResult[j]) /\ nPending[j] = 2 /\ failed[j] = 0) =>
            /\ httpCount[j] = 3
            /\ lastDelay[j] = (baseDelay * 3) \div 2
            /\ lastDelay[j] <= maxDelay
            /\ reports[j] = 1

\* C3: the poller gives up on server errors exactly at the 4th failed query
\* in a row, never queries a 5th time, and retries after 5000 ms.
C3_AbandonOnFourthFailure ==
    \A j \in Jobs :
        /\ consecErrors[j] <= maxErrorRetries + 1
        /\ rendered[j].panel = "technical" =>
              consecErrors[j] = maxErrorRetries + 1 /\ NoMoreQueries(j)
        /\ rendered[j].panel = "difficulties" =>
              \A t \in CheckTimers(j) : t.delay = errorRetryDelay

\* C4: a status query that succeeds after server errors sets the
\* error-retry counter to zero and does not reset the pending counter.
C4_ErrorCounterReset ==
    [][\A j \in Jobs :
          (/\ consecErrors[j] > 0
           /\ (nPending'[j] > nPending[j] \/ reports'[j] > reports[j])) =>
              /\ predictionErrorRetryCount' = 0
              /\ predictionRetryCount' >= predictionRetryCount]_vars

\* C5: the delay a job's poller sets after a pending response depends on
\* that job's own pending responses only, and its poller gives up on
\* server errors only after more than 3 server errors of its own.
C5_JobsIndependent ==
    \A j \in Jobs :
        /\ nPending[j] > 0 => lastDelay[j] = pendingDelay(nPending[j] - 1)
        /\ rendered[j].panel = "technical" => errorsSeen[j] > maxErrorRetries

Outstanding(j, whos) ==
    Count(calls, {c \in BagToSet(calls) :
                     c.job = j /\ c.phase = "fetch" /\ c.who \in whos})

\* C6 as stated: at most one status query per job is outstanding, whoever
\* issued it.
C6_OneOutstandingQuery ==
    \A j \in Jobs : Outstanding(j, {"poll", "manual"}) <= 1

\* C6, amended: a job's poller has at most one continuation at a time (a
\* timer, a request or a retry sleep), so at most one query of its own is
\* outstanding and the next is issued only after the previous resolved.
C6_PollerOneAtATime ==
    \A j \in Jobs :
        /\ Count(calls, PollCalls(j)) + Count(timers, CheckTimers(j)) <= 1
        /\ Outstanding(j, {"poll"}) <= 1

\* the poller's query and a manual query of the same job are both out,
\* after the poller has rescheduled itself once
C6_Witness ==
    \E j \in Jobs :
        /\ nPending[j] >= 1
        /\ Outstanding(j, {"poll"}) = 1
        /\ Outstanding(j, {"manual"}) = 1

\* C7 as stated: after a failed status query no further request is issued
\* by the poller's getPrediction call.
C7_NoRetryOfOtherFailures ==
    \A j \in Jobs : \A c \in PollCalls(j) : c.retries = 0

\* C7, amended: getPrediction repeats a failed request only after an error
\* whose message contains 'сервер' and issues at most 3 requests; once it
\* has thrown an error that is neither not-found nor server-internal (or
\* returned null), the error is shown and nothing more is queried.
C7_OtherFailuresAbandon ==
    \A j \in Jobs :
        /\ \A c \in PollCalls(j) :
              /\ c.retries < maxRetries
              /\ c.phase = "wait" => Includes(c.err, WServer)
        /\ IsOtherFailure(lastResult[j]) =>
              rendered[j] = Panel("status_error", "") /\ NoMoreQueries(j)

\* a timeout was retried twice and then shown: three failed requests
C7_Witness ==
    \E j \in Jobs :
        /\ lastResult[j] = Threw(MsgTimeout)
        /\ failed[j] = maxRetries
        /\ httpCount[j] = maxRetries
        /\ rendered[j].panel = "status_error"

\* C8: the first not-found response ends the polling of the job: it is
\* never retried, 'not found' is shown and nothing more is queried.
C8_NotFoundAbandons ==
    \A j \in Jobs :
        /\ \A c \in PollCalls(j) : ~Includes(c.err, WNotFound)
        /\ IsNotFound(lastResult[j]) =>
              rendered[j] = Panel("not_found", "") /\ NoMoreQueries(j)

\* a job was reported not found after a pending response
C8_Witness ==
    \E j \in Jobs :
        /\ IsNotFound(lastResult[j])
        /\ nPending[j] >= 1
        /\ failed[j] = 1
        /\ rendered[j].panel = "not_found"

RECURSIVE SumUpTo(_, _)
SumUpTo(f, n) == IF n = 0 THEN 0 ELSE f[n] + SumUpTo(f, n - 1)

\* C9: a poller that reached terminal called loadBalance() once at once,
\* and scheduled one more call, 1000 ms later, exactly when the payload is
\* failed or carries the refund marker; a poller not at terminal did neither.
C9_RefreshOnTerminal ==
    /\ \A j \in Jobs :
          /\ IsTerminal(lastResult[j]) =>
                /\ refreshes[j] = 1
                /\ delayed[j] = IF lastResult[j].value.status = "failed"
                                   \/ lastResult[j].value.marker
                                THEN 1 ELSE 0
          /\ (sub[j] = "polling" /\ ~IsTerminal(lastResult[j])) =>
                refreshes[j] = 0 /\ delayed[j] = 0
    /\ \A t \in BalanceTimers : t.delay = refundRefreshDelay
    /\ Count(timers, BalanceTimers) + lateRefreshes = SumUpTo(delayed, MaxJobs)

\* a completed job with the refund marker got both refreshes
C9_Witness ==
    \E j \in Jobs :
        /\ IsCompleted(lastResult[j])
        /\ lastResult[j].value.marker
        /\ refreshes[j] = 1
        /\ delayed[j] = 1
        /\ lateRefreshes = 1

\* C10: a terminal payload is shown exactly once and ends the polling; in
\* the run submit -> pending -> poll pending -> poll completed there is one
\* report and one balance refresh.
C10_TerminalReportedOnce ==
    \A j \in Jobs :
        /\ reports[j] <= 1
        /\ reports[j] = 1 => IsTerminal(lastResult[j])
        /\ IsTerminal(lastResult[j]) =>
              /\ reports[j] = 1
              /\ rendered[j] = Panel("result", payloadLabel(lastResult[j].value))
              /\ NoMoreQueries(j)
        /\ (/\ IsCompleted(lastResult[j])
            /\ ~lastResult[j].value.marker
            /\ nPending[j] = 1
            /\ failed[j] = 0) =>
              /\ httpCount[j] = 2
              /\ refreshes[j] + delayed[j] = 1

\* the end-to-end run: one pending poll, then completed
C10_Witness ==
    \E j \in Jobs :
        /\ IsCompleted(lastResult[j])
        /\ ~lastResult[j].value.marker
        /\ nPending[j] = 1
        /\ failed[j] = 0
        /\ reports[j] = 1
        /\ refreshes[j] = 1

\* the delays the schedule min(2000 * 1.5^attempt, 10000) gives one job
DelaySchedule == <<2000, 3000, 4500, 6750, 10000>>

IsPending(r) == r.ok /\ ~r.value.isNull /\ r.value.status = "pending"

\* C11: the delay set after a job's n-th pending response is the n-th of
\* 2000, 3000, 4500, 6750, 10000, 10000, ... (attempt = the pending
\* responses this job received before), and the poller stays in polling:
\* exactly one query is scheduled, with that delay.
C11_PendingSchedule ==
    \A j \in Jobs :
        /\ nPending[j] > 0 =>
              lastDelay[j] = DelaySchedule[Min(nPending[j], Len(DelaySchedule))]
        /\ (IsPending(lastResult[j]) /\ PollCalls(j) = {}) =>
              /\ Count(timers, CheckTimers(j)) = 1
              /\ \A t \in CheckTimers(j) : t.delay = lastDelay[j]

\* ------------------------------------------------- a server that answers
\* every request answered with a job payload: no request fails
JobOutcomes == {Outcome("ok", b) : b \in JobBodies}

NextLive ==
    \/ \E j \in Jobs : HandleTransactionAnalysis(j)
    \/ \E c \in BagToSet(calls), net \in JobOutcomes : SubmitResponse(c, net)
    \/ \E t \in BagToSet(timers) : CheckTimerFire(t)
    \/ \E c \in BagToSet(calls), net \in JobOutcomes : StatusResponse(c, net)
    \/ \E t \in BagToSet(timers) : BalanceTimerFire(t)

\* the event loop runs every timer that is due, and every request is
\* answered; the job leaves pending after at most MaxPending such answers
FairPolling ==
    \A j \in Jobs :
        /\ WF_vars(\E t \in BagToSet(timers) : t.job = j /\ CheckTimerFire(t))
        /\ WF_vars(\E c \in BagToSet(calls), net \in JobOutcomes :
                      c.job = j /\ StatusResponse(c, net))

SpecLive == Init /\ [][NextLive]_vars /\ FairPolling

\* the same server, answering pending often enough for the delay to reach
\* its maximum
MaxLongPending == 6
SpecLong ==
    /\ AppStartWith(MaxJobs, {FormTransactionData}, MaxLongPending)
    /\ transport = NoFetch
    /\ balance = NoBalance
    /\ auth = AuthSettled(token)
    /\ [][NextLive]_vars

\* C12: while no status query fails, a job that is being polled always has
\* its next query scheduled or outstanding, however many pending responses
\* it got, and its poller eventually reaches terminal.
C12_EventuallyTerminal ==
    /\ [](\A j \in Jobs :
            (sub[j] = "polling" /\ ~IsTerminal(lastResult[j])) =>
                /\ ~NoMoreQueries(j)
                /\ rendered[j].panel \in {"result", "processing"})
    /\ \A j \in Jobs : (sub[j] = "polling") ~> IsTerminal(lastResult[j])

\* a job reached terminal after as many pending responses as the session has
C12_Witness ==
    \E j \in Jobs :
        /\ IsTerminal(lastResult[j])
        /\ nPending[j] = MaxPending
        /\ reports[j] = 1

\* analyzeTransaction threw before it called fetchAPI, or fetchAPI threw
\* before it issued the request
IsLocalFailure(r) == ~r.ok /\ r.msg \in {MsgAuth, MsgNoData, MsgMissingField}
SubmitCallsOf(j) == {c \in SubmitCalls : c.job = j}
ErrorPanels == {"top_up", "unavailable", "analysis_error"}

\* C13: every call of analyzeTransaction issued at most one POST (the POSTs
\* issued are exactly the calls that got as far as the request), and a
\* failed POST is shown as an error at once: the submission is over, with
\* no request of it left and no poller started.
C13_SubmitOnce ==
    /\ postCount =
          Cardinality({j \in Jobs :
                          \/ sub[j] = "posting"
                          \/ sub[j] \in {"polling", "done"}
                             /\ ~IsLocalFailure(submitResult[j])})
    /\ \A j \in Jobs :
          /\ Count(calls, SubmitCallsOf(j)) <= 1
          /\ SubmitCallsOf(j) # {} <=> sub[j] = "posting"
          /\ (~submitResult[j].ok /\ submitResult[j].msg # "") =>
                /\ sub[j] = "done"
                /\ rendered[j] = Panel(predictionErrorPanel(submitResult[j].msg), "")
                /\ NoMoreQueries(j)
                /\ httpCount[j] = 0

\* a POST that timed out was shown as an error after that single POST
C13_Witness ==
    /\ submitResult[1] = Threw(MsgTimeout)
    /\ rendered[1].panel = "analysis_error"
    /\ sub[1] = "done"
    /\ postCount = 1

\* C14: a submit response that succeeded but carries no job identifier (or
\* no body at all) is shown as an error; no poller is started for it (no
\* timer, no status request) and no balance refresh is triggered.
C14_NoIdIsFailure ==
    \A j \in Jobs :
        (submitResult[j].ok /\ (submitResult[j].value.isNull
                                \/ ~submitResult[j].value.hasId)) =>
            /\ sub[j] = "done"
            /\ rendered[j] = Panel(predictionErrorPanel(MsgNoId), "")
            /\ rendered[j].panel \in ErrorPanels
            /\ NoMoreQueries(j)
            /\ httpCount[j] = 0
            /\ refreshes[j] = 0
            /\ delayed[j] = 0

\* the POST was answered with a pending job that has no prediction_id
C14_Witness ==
    \E j \in Jobs :
        /\ submitResult[j] = Returned(Body(FALSE, "pending", FALSE))
        /\ sub[j] = "done"
        /\ rendered[j].panel = "analysis_error"

\* ------------------------------------------------- properties of fetchAPI
FetchSettled == transport.phase = "settled"
FetchStarted == transport.phase \in {"sent", "settled"}
GotResponse == FetchSettled /\ transport.net.kind = "response"

\* C15: a call with auth required and no token stored has thrown
\* 'Требуется авторизация' as soon as it ran, and issued no request.
C15_NoTokenNoRequest ==
    (FetchStarted /\ transport.auth /\ ~token) =>
        /\ FetchSettled
        /\ transport.result = FetchThrew(MsgAuth)
        /\ transport.requests = 0
        /\ transport.net.kind = "none"

\* such a call has run
C15_Witness ==
    /\ FetchSettled
    /\ transport.auth
    /\ ~token
    /\ transport.result.msg = MsgAuth
    /\ transport.requests = 0

\* C17: a call whose request got no response within 30 s throws the
\* timeout error, with AbortSignal.timeout and with the fallback alike.
C17_TimeoutKind ==
    (FetchSettled /\ transport.net.kind = "slow") =>
        transport.result = FetchThrew(MsgTimeout)

\* C18: one call of fetchAPI issues at most one request: none when it
\* throws before the request, one otherwise, whatever the outcome.
C18_OneRequest ==
    /\ transport.requests <= 1
    /\ transport.phase = "sent" => transport.requests = 1
    /\ FetchSettled =>
          transport.requests = IF transport.net.kind = "none" THEN 0 ELSE 1

\* a call whose request failed on the network has settled after one request
C18_Witness ==
    /\ FetchSettled
    /\ transport.net.kind = "net_fail"
    /\ transport.result = FetchThrew(MsgNetwork)
    /\ transport.requests = 1

\* C19: for a non-success status the message is the structured one when the
\* body decodes to one, else the raw text (cut to 100 characters), and the
\* status line only when the raw text is unavailable too.
C19_ErrorMessageOrder ==
    (GotResponse /\ ~transport.net.okStatus) =>
        LET msg == transport.result.msg
            ctype == transport.net.ctype
            body == transport.net.body
        IN
        /\ ~transport.result.ok
        /\ msg \in {MsgDetail, MsgRawText, MsgRawTextCut, MsgStatusLine}
        /\ (ctype = "json" /\ body = "json_detail") => msg = MsgDetail
        /\ msg \in {MsgRawText, MsgRawTextCut} =>
              ~(ctype = "json" /\ body = "json_detail")
        /\ msg = MsgRawTextCut <=> (msg # MsgDetail /\ body = "long_text")
        /\ msg = MsgStatusLine => body \in {"unreadable", "empty"}

\* C20: for a success status the call returns null when no content type is
\* declared, the decoded value when a declared JSON body decodes, and throws
\* 'Получен некорректный JSON от сервера' when it does not; what it returns
\* for a declared JSON body is always a wholly decoded value.
C20_SuccessDecoding ==
    (GotResponse /\ transport.net.okStatus) =>
        LET ctype == transport.net.ctype
            body == transport.net.body
            decodable == body \in {"json_detail", "json_no_detail", "json_null"}
        IN
        /\ ctype = "none" => transport.result = FetchReturned("null")
        /\ (ctype = "json" /\ decodable) =>
              transport.result =
                  FetchReturned(IF body = "json_null" THEN "null" ELSE body)
        /\ (ctype = "json" /\ ~decodable) =>
              transport.result = FetchThrew(MsgBadJson)
        /\ transport.requests = 1

\* a 200 response declared as JSON whose body is no JSON was rejected
C20_Witness ==
    /\ GotResponse
    /\ transport.net.okStatus
    /\ transport.net.ctype = "json"
    /\ transport.net.body = "short_text"
    /\ transport.result = FetchThrew(MsgBadJson)

\* C16: when the token is gone, the poller's next call of getPrediction
\* throws 'Требуется авторизация' without a request; that error is never
\* followed by a retry sleep; it is shown, and nothing more is queried for
\* the job.
C16_LogoutStopsPolling ==
    /\ [](\A j \in Jobs :
            /\ \A c \in PollCalls(j) : c.err # MsgAuth
            /\ lastResult[j] = Threw(MsgAuth) =>
                  /\ ~token
                  /\ rendered[j] = Panel("status_error", "")
                  /\ NoMoreQueries(j))
    /\ [][\A j \in Jobs :
            /\ (lastResult'[j] = Threw(MsgAuth) /\ lastResult[j] # Threw(MsgAuth)) =>
                  /\ httpCount'[j] = httpCount[j]
                  /\ failed'[j] = failed[j] + 1
            /\ ~token => httpCount'[j] = httpCount[j]]_vars

\* the user logged out while job j was pending and its next check found
\* no token
C16_Witness ==
    \E j \in Jobs :
        /\ lastResult[j] = Threw(MsgAuth)
        /\ nPending[j] >= 1
        /\ ~isAuthenticated
        /\ rendered[j].panel = "status_error"

BodyMethods == {"POST", "PUT", "PATCH"}

\* C21: the request of a call carries a body exactly when the method is
\* POST, PUT or PATCH and data is supplied; with any other method the
\* request goes out without a body whatever the data; and a call whose data
\* cannot be serialized has thrown without issuing a request.
C21_BodyOnlyForBodyMethods ==
    /\ transport.requests > 0 =>
          /\ transport.body <=>
                (transport.method \in BodyMethods
                 /\ transport.data \in {"plain", "cyclic"})
          /\ transport.method \notin BodyMethods => ~transport.body
          /\ transport.body => transport.data = "plain"
    /\ (/\ FetchStarted
        /\ ~(transport.auth /\ ~token)
        /\ transport.method \in BodyMethods
        /\ transport.data = "cyclic") =>
          /\ FetchSettled
          /\ transport.result = FetchThrew(MsgNotSerializable)
          /\ transport.requests = 0
    /\ transport.result.msg = MsgNotSerializable =>
          transport.method \in BodyMethods /\ transport.requests = 0

\* a POST whose data cannot be serialized failed before any request
C21_Witness ==
    /\ FetchSettled
    /\ transport.method = "POST"
    /\ transport.data = "cyclic"
    /\ transport.result = FetchThrew(MsgNotSerializable)
    /\ transport.requests = 0

\* the call threw an error whose message is the text of the response
ThrewResponseText ==
    /\ FetchSettled
    /\ GotResponse
    /\ ~transport.result.ok
    /\ transport.result.msg \in {MsgRawText, MsgRawTextCut}

\* C23: an error message taken from a non-JSON error body of more than 100
\* characters is its first 100 characters followed by '...', one taken from
\* a body of 1 to 100 characters is the body unchanged, and so the message
\* never has more than 103 characters.
C23_TextCutAt100 ==
    ThrewResponseText =>
        /\ transport.net.len > 100 => transport.text = Text(100, TRUE)
        /\ transport.net.len <= 100 => transport.text = Text(transport.net.len, FALSE)
        /\ transport.net.len >= 1
        /\ textLength(transport.text) <= 103
        /\ transport.result.msg = MsgRawTextCut <=> transport.text.dots

\* a text of exactly 100 characters became the message unchanged
C23_Witness ==
    /\ ThrewResponseText
    /\ transport.net.len = 100
    /\ transport.text = Text(100, FALSE)

\* a text of 101 characters or more was cut to 103
C23_WitnessCut ==
    /\ ThrewResponseText
    /\ transport.net.len > 100
    /\ textLength(transport.text) = 103

\* the last result of job j's poller went to the catch block
ReachedErrorHandler(j) ==
    \/ lastResult[j].ok /\ lastResult[j].value.isNull
    \/ ~lastResult[j].ok /\ lastResult[j].msg # ""

\* the branch of the catch block that wrote job j's panel
BranchShown(j) ==
    CASE rendered[j].panel = "not_found" -> {"not_found"}
      [] rendered[j].panel \in {"difficulties", "technical"} -> {"server_error"}
      [] rendered[j].panel = "status_error" -> {"other"}
      [] OTHER -> {}

\* C22: every failure that reached the poller's catch block was handled by
\* exactly one of the branches not-found / server-internal / other, chosen
\* by its message alone (not-found first when the message matches both): two
\* pollers that failed with the same message took the same branch, whatever
\* the counters were.
C22_ClassificationByMessage ==
    \A j \in Jobs :
        ReachedErrorHandler(j) =>
            /\ BranchShown(j) =
                  IF lastResult[j].ok THEN {"other"}
                  ELSE IF Includes(lastResult[j].msg, WNotFound) THEN {"not_found"}
                  ELSE IF Includes(lastResult[j].msg, WISE) THEN {"server_error"}
                  ELSE {"other"}
            /\ \A k \in Jobs :
                  (ReachedErrorHandler(k) /\ lastResult[k] = lastResult[j]) =>
                      BranchShown(k) = BranchShown(j)

\* a message matching both tests was handled as not found, after the error
\* counter had already moved
C22_Witness ==
    \E j \in Jobs :
        /\ lastResult[j] = Threw(MsgIseNotFound)
        /\ rendered[j].panel = "not_found"
        /\ predictionErrorRetryCount > 0

\* the POST of submission j was answered with a job id and status pending
PendingSubmission(j) ==
    /\ submitResult[j].ok
    /\ ~missingPredictionId(submitResult[j].value)
    /\ submitResult[j].value.status = "pending"

\* submission j failed: validation, no token, a failed POST, no job id
FailedSubmission(j) ==
    \/ ~submitResult[j].ok /\ submitResult[j].msg # ""
    \/ submitResult[j].ok /\ missingPredictionId(submitResult[j].value)

\* status queries of job j's polling chains that are out or scheduled
ChainLinks(j) == Count(calls, PollCalls(j)) + Count(timers, CheckTimers(j))

\* C24: a submission answered with pending has started exactly one polling
\* chain in the step that handled the answer: until its first query goes
\* out there is exactly one timer for the job, set to 2000 ms, and at no
\* time is more than one query of the job out or scheduled; a submission
\* that failed validation or was rejected has started none.
C24_OneChainPerPendingSubmission ==
    \A j \in Jobs :
        /\ PendingSubmission(j) <=> sub[j] = "polling"
        /\ (PendingSubmission(j) /\ httpCount[j] = 0 /\ PollCalls(j) = {}) =>
              /\ CheckTimers(j) = {Timer("check", j, initialPollDelay)}
              /\ Count(timers, CheckTimers(j)) = 1
        /\ PendingSubmission(j) => ChainLinks(j) <= 1
        /\ FailedSubmission(j) =>
              NoMoreQueries(j) /\ httpCount[j] = 0 /\ sub[j] = "done"
        /\ ~ValidPayload => NoMoreQueries(j) /\ httpCount[j] = 0 /\ postCount = 0

\* the first timer of a chain is waiting
C24_Witness ==
    \E j \in Jobs :
        /\ PendingSubmission(j)
        /\ httpCount[j] = 0
        /\ Count(timers, CheckTimers(j)) = 1

\* a payload that failed validation ended the submission with no chain
C24_WitnessInvalid ==
    \E j \in Jobs :
        /\ ~ValidPayload
        /\ sub[j] = "done"
        /\ FailedSubmission(j)
        /\ NoMoreQueries(j)

IsServerError(r) == ~r.ok /\ ~Includes(r.msg, WNotFound) /\ Includes(r.msg, WISE)

\* job j's poller stopped on an error: not found, a server error with the
\* retry budget used up, or any other error
Abandoned(j) ==
    /\ sub[j] = "polling"
    /\ NoMoreQueries(j)
    /\ \/ IsNotFound(lastResult[j])
       \/ IsOtherFailure(lastResult[j])
       \/ IsServerError(lastResult[j])

AbandonPanels == {"not_found", "technical", "status_error"}

\* C25: a poller that was abandoned (not found, server-error retries used
\* up, any other error) shows one of the three error panels, never a job
\* status, and has triggered no balance refresh, immediate or delayed, and
\* reported no result; the step that abandons it registers no timer and
\* leaves the refresh counters as they were.
C25_AbandonHasNoRefresh ==
    /\ [](\A j \in Jobs :
            Abandoned(j) =>
                /\ rendered[j].panel \in AbandonPanels
                /\ rendered[j].status # "failed"
                /\ refreshes[j] = 0
                /\ delayed[j] = 0
                /\ reports[j] = 0)
    /\ [][\A j \in Jobs :
            (~Abandoned(j) /\ Abandoned(j)') =>
                /\ refreshes' = refreshes
                /\ delayed' = delayed
                /\ lateRefreshes' = lateRefreshes
                /\ BalanceTimers' = BalanceTimers
                /\ Count(timers', BalanceTimers') = Count(timers, BalanceTimers)]_vars

\* a poller gave up after the server-error retries ran out
C25_Witness ==
    \E j \in Jobs :
        /\ Abandoned(j)
        /\ IsServerError(lastResult[j])
        /\ rendered[j].panel = "technical"

\* the getPrediction invocations in progress
StatusCalls == {c \in BagToSet(calls) : c.who \in {"poll", "manual"}}

\* requests an invocation has issued or tried to issue so far
RequestsOf(c) == c.retries + (IF c.phase = "fetch" THEN 1 ELSE 0)

Sleeping(j) == {c \in PollCalls(j) : c.phase = "wait"}

DirectResult(j) ==
    /\ submitResult[j].ok
    /\ ~missingPredictionId(submitResult[j].value)
    /\ submitResult[j].value.status # "pending"

\* C27: a submission whose response already carries a non-pending status is
\* over at once: the result is displayed, the balance refresh was triggered
\* exactly once, no status query was or will be issued for the job, and no
\* delayed refresh is scheduled, also when the status is failed.
C27_DirectResultNoPolling ==
    \A j \in Jobs :
        DirectResult(j) =>
            /\ sub[j] = "done"
            /\ rendered[j] = Panel("result", payloadLabel(submitResult[j].value))
            /\ refreshes[j] = 1
            /\ delayed[j] = 0
            /\ httpCount[j] = 0
            /\ NoMoreQueries(j)
            /\ reports[j] = 0

\* a submission answered with failed: one refresh, none delayed
C27_Witness ==
    \E j \in Jobs :
        /\ DirectResult(j)
        /\ submitResult[j].value.status = "failed"
        /\ rendered[j] = Panel("result", "failed")
        /\ refreshes[j] = 1
        /\ delayed[j] = 0

\* job k's submission took a step: the form was submitted or its POST was
\* answered
SubmitStep(k) == sub'[k] # sub[k]

\* a timer of job j's chain fired
TimerFired(j) ==
    \E t \in CheckTimers(j) : CopiesIn(t, timers') < CopiesIn(t, timers)

\* C28: submitting another job, and the answer to its POST, leave every
\* other job's polling chain as it was (no timer and no request of it is
\* removed); a timer of a chain is removed only by firing, which issues the
\* chain's next status query; and whenever a poller writes the panel the
\* page shows that poller's job, whichever job was submitted last.
C28_EarlierChainKeepsRunning ==
    /\ [][\A k \in Jobs :
            SubmitStep(k) =>
                \A j \in Jobs \ {k} :
                    /\ PollCalls(j)' = PollCalls(j)
                    /\ CheckTimers(j)' = CheckTimers(j)
                    /\ ChainLinks(j)' = ChainLinks(j)]_vars
    /\ [][\A j \in Jobs :
            /\ TimerFired(j) => httpCount'[j] = httpCount[j] + 1
            /\ rendered'[j] # rendered[j] => panelOwner' = j]_vars

\* both chains are running, and the panel, which showed the second job,
\* shows a pending callback of the first
C28_Witness ==
    /\ sub[1] = "polling"
    /\ sub[2] = "polling"
    /\ rendered[2].panel \in {"result", "processing"}
    /\ panelOwner = 1
    /\ rendered[1].panel = "processing"
    /\ httpCount[1] >= 1
    /\ httpCount[2] >= 1
    /\ ChainLinks(1) = 1
    /\ ChainLinks(2) = 1

\* the panel shows the first job's terminal result while the second job is
\* still being polled
C28_WitnessTerminal ==
    /\ sub[2] = "polling"
    /\ rendered[2].panel \in {"result", "processing"}
    /\ ChainLinks(2) = 1
    /\ panelOwner = 1
    /\ rendered[1] = Panel("result", "completed")
    /\ IsCompleted(lastResult[1])

BalanceISE == ~balance.last.ok /\ Includes(balance.last.msg, WISE)
BalanceOtherFailure ==
    ~balance.last.ok /\ balance.last.msg # "" /\ ~Includes(balance.last.msg, WISE)

\* C29: a balance refresh whose request failed with 'Internal Server Error'
\* has registered a 3000 ms timer for another loadBalance(), whatever the
\* number of earlier failures, and the fired timer issues the next request
\* as long as the user is logged in; a refresh that failed in any other way
\* is over, having issued at most the one request of that call; and while
\* the user is not logged in no request is issued.
C29_BalanceRetryUncapped ==
    /\ [](/\ balance.phase = "sleep" =>
                /\ BalanceISE
                /\ balance.delay = 3000
                /\ balance.shown = "loading"
          /\ (BalanceISE /\ balance.phase = "done") => ~isAuthenticated
          /\ BalanceOtherFailure =>
                /\ balance.phase = "done"
                /\ balance.shown = "error"
          /\ balance.requests <= balance.retries + 1
          /\ balance.phase = "request" => balance.requests = balance.retries + 1)
    /\ [][/\ (balance.phase = "request" /\ balance'.phase # "request"
              /\ ~balance'.last.ok /\ Includes(balance'.last.msg, WISE)) =>
                  /\ balance'.phase = "sleep"
                  /\ balance'.retries = balance.retries + 1
          /\ (balance.phase = "sleep" /\ balance'.phase # "sleep") =>
                  IF isAuthenticated
                  THEN balance'.requests = balance.requests + 1
                  ELSE balance'.requests = balance.requests
          /\ ~isAuthenticated => balance'.requests = balance.requests
          /\ balance'.requests <= balance.requests + 1]_vars

\* the request after five failures with 'Internal Server Error' is out
C29_Witness ==
    /\ balance.phase = "request"
    /\ BalanceISE
    /\ balance.retries = 5
    /\ balance.requests = 6

\* a refresh called while logged out ended without a request
C29_WitnessLoggedOut ==
    /\ balance.phase = "done"
    /\ ~isAuthenticated
    /\ balance.requests = 0

\* the delays set after pending responses so far: each job's last one
DelaysSet == {lastDelay[j] : j \in {k \in Jobs : nPending[k] > 0}}

\* C30: every delay set after a pending response lies between 2000 ms and
\* 10000 ms, whichever job it is for, and is at least as long as every such
\* delay set before it in the session; the counter it is computed from only
\* grows.
C30_DelayBoundedMonotone ==
    /\ [](\A d \in DelaysSet : 2000 <= d /\ d <= 10000)
    /\ [](\A t \in BagToSet(timers) :
            (t.fn = "check" /\ t.delay # initialPollDelay) =>
                2000 <= t.delay /\ t.delay <= 10000)
    /\ [][/\ predictionRetryCount' >= predictionRetryCount
          /\ \A j \in Jobs :
                nPending'[j] > nPending[j] =>
                    /\ predictionRetryCount' = predictionRetryCount + 1
                    /\ \A d \in DelaysSet : lastDelay'[j] >= d]_vars

\* the second job's delay has reached the maximum after the first job was
\* answered pending too
C30_Witness ==
    /\ nPending[1] >= 1
    /\ nPending[2] >= 2
    /\ lastDelay[2] = 10000
    /\ lastDelay[1] < 10000
    /\ predictionRetryCount >= 5

KnownStatuses == {"pending", "completed", "failed"}

\* C31: the poller ended on a successful response exactly when its status
\* was not 'pending': any other status, known or not, was displayed once,
\* triggered one balance refresh and left no query scheduled, while a
\* pending one left exactly one; and a successful response with a null body
\* went through the error path: the status error is shown, nothing more is
\* queried, no refresh is triggered and it was not counted as pending.
C31_TerminalIffNotPending ==
    \A j \in Jobs :
        LET r == lastResult[j] IN
        /\ (r.ok /\ ~r.value.isNull /\ r.value.status # "pending") =>
              /\ NoMoreQueries(j)
              /\ rendered[j] = Panel("result", payloadLabel(r.value))
              /\ reports[j] = 1
              /\ refreshes[j] = 1
        /\ (r.ok /\ ~r.value.isNull /\ r.value.status = "pending") =>
              /\ ChainLinks(j) = 1
              /\ rendered[j] = Panel("processing", "")
              /\ reports[j] = 0
              /\ refreshes[j] = 0
        /\ (r.ok /\ r.value.isNull) =>
              /\ NoMoreQueries(j)
              /\ rendered[j] = Panel("status_error", "")
              /\ reports[j] = 0
              /\ refreshes[j] = 0
              /\ delayed[j] = 0

\* a status the page does not know ended the polling with a refresh
C31_Witness ==
    \E j \in Jobs :
        /\ lastResult[j].ok
        /\ lastResult[j].value.status \notin KnownStatuses
        /\ ~lastResult[j].value.isNull
        /\ nPending[j] >= 1
        /\ NoMoreQueries(j)
        /\ refreshes[j] = 1

\* a null body ended the polling through the error path
C31_WitnessNull ==
    \E j \in Jobs :
        /\ lastResult[j] = Returned(Null)
        /\ rendered[j].panel = "status_error"
        /\ NoMoreQueries(j)

LoginFailed == auth.login.kind = "login" /\ auth.login.phase = "failed"

\* C32: after a failed handleLogin the token in localStorage and in the
\* Auth object is the one from before the attempt, and isAuthenticated is
\* as it was.
C32_FailedLoginKeepsCredential ==
    LoginFailed =>
        /\ auth.lsToken = auth.login.before.lsToken
        /\ auth.memToken = auth.login.before.memToken
        /\ isAuthenticated = auth.login.before.isAuthenticated

\* what does hold after a failed handleLogin: isAuthenticated is as it was,
\* and the token changed only if the token request had succeeded
C32_FailedLoginKeepsFlag ==
    LoginFailed =>
        /\ isAuthenticated = auth.login.before.isAuthenticated
        /\ auth.lsToken # auth.login.before.lsToken => auth.lsToken # "none"

\* the login failed at the user request and left the new token stored
C32_TokenLeftBehind ==
    /\ LoginFailed
    /\ auth.login.before.lsToken = "none"
    /\ auth.lsToken \in Tokens
    /\ auth.memToken = auth.lsToken
    /\ token
    /\ ~isAuthenticated

\* C33: after any Auth operations, whenever isAuthenticated is true a token
\* is stored, and the token of the Auth object is the one in localStorage.
C33_AuthConsistent ==
    /\ isAuthenticated => token /\ auth.lsToken # "none"
    /\ auth.memToken = auth.lsToken

\* the parts of C33 that do hold: handleLogout clears token, user and
\* isAuthenticated in the step it runs, and a checkAuthStatus whose user
\* request fails ends logged out
C33_LogoutClears ==
    [][/\ (token /\ ~token') =>
              /\ auth'.lsToken = "none"
              /\ auth'.memToken = "none"
              /\ ~auth'.user
              /\ ~auth'.lsUser
              /\ ~isAuthenticated'
       /\ (auth.check = "waiting" /\ auth'.check = "done"
           /\ ~isAuthenticated') =>
              /\ ~token'
              /\ auth'.memToken = "none"
              /\ ~auth'.user]_vars

\* the page is authenticated with no token stored: a logout was undone by
\* the user request of checkAuthStatus that was still under way
C33_AuthenticatedWithoutToken ==
    /\ isAuthenticated
    /\ ~token
    /\ auth.lsToken = "none"
    /\ auth.memToken = "none"
    /\ auth.check = "done"
    /\ auth.login.phase = "idle"

====
